---- MODULE Spec2Model ----
(***************************************************************************)
(* DocRewind playback core: the command interpreter                        *)
(* (applyCommandsToDocument) and the PlaybackEngine state machine of       *)
(* src/src/core/playbackEngine.ts, with the host's interval timers.        *)
(* A document is a sequence of one-character strings; revision index i of  *)
(* the code is element i+1 of the sequence `revisions`.                    *)
(***************************************************************************)
EXTENDS Integers, Sequences, FiniteSets, TLC

VARIABLES revisions, currentRevisionIndex, currentContent, state, options,
          playbackInterval, timers, nextTimerId, op, arg, ret, run,
          buffer, bufferBefore, applied, payload, parsed

vars == <<revisions, currentRevisionIndex, currentContent, state, options,
          playbackInterval, timers, nextTimerId, op, arg, ret, run,
          buffer, bufferBefore, applied, payload, parsed>>

\* The interpreter's buffer (with the buffer before and the commands of the
\* last application) and the parser's payload and result: used by the
\* specifications of the pure functions, idle in the engine's.
pureVars == <<buffer, bufferBefore, applied, payload, parsed>>

\* ---------------------------------------------------------------- bounds
MaxRevs == 2
MaxTimerIds == 2
MaxJump == 3
\* Interpreter inputs: documents of up to MaxDocLen characters (and no
\* application to a longer buffer), command indices 0..MaxIndex.
MaxDocLen == 3
MaxIndex == 4
\* Parser inputs: change lists of up to MaxChanges entries.
MaxChanges == 3

\* ------------------------------------------------------------- constants
IDLE == "idle"
PLAYING == "playing"
PAUSED == "paused"
LOADING == "loading"
ERROR == "error"
PlaybackState == {IDLE, PLAYING, PAUSED, LOADING, ERROR}

INSERT == "is"
DELETE == "ds"
MULTI == "mlti"
STYLE == "st"

null == 0
BaseInterval == 100
DEFAULT_PLAYBACK_OPTIONS == [speed |-> 1, autoPlay |-> FALSE]

Min(a, b) == IF a < b THEN a ELSE b
Max(a, b) == IF a > b THEN a ELSE b

\* ------------------------------------------------- String.prototype.slice
\* A relative index: negative counts from the end, everything is clamped
\* to [0, len].
RelIndex(len, k) == IF k < 0 THEN Max(len + k, 0) ELSE Min(k, len)

slice(str, start, end) ==
  LET from == RelIndex(Len(str), start)
      to   == RelIndex(Len(str), end)
  IN IF from >= to THEN <<>> ELSE SubSeq(str, from + 1, to)

sliceFrom(str, start) == slice(str, start, Len(str))

\* ------------------------------------------------------------ interpreter
\* Variant: the text goes in one position after the index.
applyInsertAfter(document, command) ==
  slice(document, 0, command.ibi + 1) \o command.s
    \o sliceFrom(document, command.ibi + 1)

\* Variant: the index is ignored and the text is appended.
applyInsertAppends(document, command) ==
  document \o command.s

\* Variant: an index beyond the end of the document is rejected and the
\* document returned as it is.
applyInsertRejectsBeyondEnd(document, command) ==
  IF command.ibi > Len(document) THEN document
  ELSE slice(document, 0, command.ibi) \o command.s
         \o sliceFrom(document, command.ibi)

applyInsertCommand(document, command) ==
  slice(document, 0, command.ibi) \o command.s \o sliceFrom(document, command.ibi)

\* Variant: the end index is taken as inclusive.
applyDeleteInclusive(document, command) ==
  slice(document, 0, command.si) \o sliceFrom(document, command.ei + 1)

applyDeleteCommand(document, command) ==
  slice(document, 0, command.si) \o sliceFrom(document, command.ei)

RECURSIVE applyCommand(_, _)
RECURSIVE applyCommandsToDocument(_, _)

\* Variant: the subcommands are applied last to first.
applyMultiReversed(document, command) ==
  LET RECURSIVE Loop(_, _)
      Loop(result, i) ==
        IF i < 1 THEN result
        ELSE Loop(applyCommand(result, command.cmds[i]), i - 1)
  IN Loop(document, Len(command.cmds))

applyMultiCommand(document, command) ==
  LET RECURSIVE Loop(_, _)
      Loop(result, i) ==
        IF i > Len(command.cmds) THEN result
        ELSE Loop(applyCommand(result, command.cmds[i]), i + 1)
  IN Loop(document, 1)

\* Variant: a style command removes the range it names, as a delete does.
applyCommandStyleDeletes(document, command) ==
  CASE command.ty = INSERT -> applyInsertCommand(document, command)
    [] command.ty = DELETE -> applyDeleteCommand(document, command)
    [] command.ty = STYLE  -> applyDeleteCommand(document, command)
    [] command.ty = MULTI  -> applyMultiCommand(document, command)
    [] OTHER               -> document

applyCommand(document, command) ==
  CASE command.ty = INSERT -> applyInsertCommand(document, command)
    [] command.ty = DELETE -> applyDeleteCommand(document, command)
    [] command.ty = STYLE  -> document
    [] command.ty = MULTI  -> applyMultiCommand(document, command)
    [] OTHER               -> document

applyCommandsToDocument(document, commands) ==
  IF commands = <<>> THEN document
  ELSE applyCommandsToDocument(applyCommand(document, Head(commands)), Tail(commands))

\* ----------------------------------------------------------------- parser
\* A raw JavaScript value is a record with its type in jstype; an object
\* has its own properties as further fields, and a property it lacks reads
\* as undefined.  A command or revision the parser builds has a field for
\* each property it was given a defined value for.
JsNull == [jstype |-> "null"]
JsNumber == [jstype |-> "number"]

Nullish(v) == v.jstype \in {"null", "undefined"}
Has(v, key) == key \in DOMAIN v

\* Variant: the property keeps the name it has in the raw object.
FieldUnrenamed(o, from, to) ==
  IF Has(o, from) THEN from :> o[from] ELSE <<>>

\* The property `to: o.from` of an object literal.
Field(o, from, to) ==
  IF Has(o, from) THEN to :> o[from] ELSE <<>>

\* Outcomes of parseCommand: a command, null, or a TypeError.
Command(c) == [tag |-> "command", command |-> c]
ReturnedNull == [tag |-> "null"]
Thrown == [tag |-> "throw"]

RECURSIVE parseCommand(_)
RECURSIVE ParseEach(_)

\* Variant: the first entry that yields no command ends the loop.
ParseEachStopsAtNull(entries) ==
  IF entries = <<>> THEN [threw |-> FALSE, commands |-> <<>>]
  ELSE LET first == parseCommand(Head(entries))
       IN IF first.tag = "throw" THEN [threw |-> TRUE, commands |-> <<>>]
          ELSE IF first.tag = "null" THEN [threw |-> FALSE, commands |-> <<>>]
          ELSE LET rest == ParseEach(Tail(entries))
               IN IF rest.threw THEN rest
                  ELSE [threw |-> FALSE,
                        commands |-> <<first.command>> \o rest.commands]

\* parseCommand over a list, keeping the commands: the for-loop of
\* parseRevisionData and the map/filter(Boolean) of the 'mlti' case.  An
\* exception thrown for one entry ends it.
ParseEach(entries) ==
  IF entries = <<>> THEN [threw |-> FALSE, commands |-> <<>>]
  ELSE LET first == parseCommand(Head(entries))
       IN IF first.tag = "throw" THEN [threw |-> TRUE, commands |-> <<>>]
          ELSE LET rest == ParseEach(Tail(entries))
               IN IF rest.threw THEN rest
                  ELSE [threw |-> FALSE,
                        commands |-> (IF first.tag = "command"
                                      THEN <<first.command>> ELSE <<>>)
                                     \o rest.commands]

parseCommand(change) ==
  IF Nullish(change) THEN Thrown
  ELSE LET ty == IF Has(change, "ty") THEN change.ty ELSE "undefined"
       IN CASE ty = "is" ->
                 Command(("ty" :> INSERT) @@ Field(change, "ibi", "ibi")
                         @@ Field(change, "s", "s")
                         @@ Field(change, "ts", "timestamp"))
            [] ty = "ds" ->
                 Command(("ty" :> DELETE) @@ Field(change, "si", "si")
                         @@ Field(change, "ei", "ei")
                         @@ Field(change, "ts", "timestamp"))
            [] ty = "st" ->
                 Command(("ty" :> STYLE) @@ Field(change, "si", "si")
                         @@ Field(change, "ei", "ei")
                         @@ Field(change, "s", "s")
                         @@ Field(change, "ts", "timestamp"))
            [] ty = "mlti" ->
                 IF ~Has(change, "cmds") THEN Thrown
                 ELSE LET cmds == ParseEach(change.cmds)
                      IN IF cmds.threw THEN Thrown
                         ELSE Command(("ty" :> MULTI)
                                      @@ ("cmds" :> cmds.commands)
                                      @@ Field(change, "ts", "timestamp"))
            [] OTHER -> ReturnedNull

\* Outcomes of parseRevisionData: a revision, or the Error of its catch.
Revision(r) == [tag |-> "revision", revision |-> r]
ParseError == [tag |-> "error", message |-> "Failed to parse revision data"]

parseRevisionData(rawData) ==
  IF Nullish(rawData) THEN ParseError
  ELSE LET hasChanges == /\ Has(rawData, "changelog")
                         /\ ~Nullish(rawData.changelog)
                         /\ Has(rawData.changelog, "changes")
           each == IF hasChanges THEN ParseEach(rawData.changelog.changes)
                   ELSE [threw |-> FALSE, commands |-> <<>>]
       IN IF each.threw THEN ParseError
          ELSE Revision(Field(rawData, "revisionId", "revisionId")
                        @@ Field(rawData, "timestamp", "timestamp")
                        @@ ("commands" :> each.commands))

\* -------------------------------------------------------- revision inputs
Ins(i, text, ts) == [ty |-> INSERT, ibi |-> i, s |-> text, timestamp |-> ts]
Del(a, b, ts) == [ty |-> DELETE, si |-> a, ei |-> b, timestamp |-> ts]
Sty(a, b, ts) == [ty |-> STYLE, si |-> a, ei |-> b, s |-> "bold", timestamp |-> ts]
Mul(cs, ts) == [ty |-> MULTI, cmds |-> cs, timestamp |-> ts]
Rev(id, cs) == [revisionId |-> id, timestamp |-> 1, commands |-> cs]

Hello == <<"H", "e", "l", "l", "o">>
World == <<" ", "w", "o", "r", "l", "d">>
Bang == <<"!">>
HelloWorldBang == Hello \o World \o Bang

\* The three-revision set of the engine's test-suite.
mockRevisions ==
  << Rev("rev-1", <<Ins(0, Hello, 1)>>),
     Rev("rev-2", <<Ins(5, World, 2)>>),
     Rev("rev-3", <<Ins(11, Bang, 3)>>) >>

RevisionPool ==
  { Rev("ab", <<Ins(0, <<"a">>, 1), Ins(1, <<"b">>, 2)>>),
    Rev("d", <<Del(0, 1, 3)>>),
    Rev("m", <<Mul(<<Ins(0, <<"c">>, 4), Sty(0, 1, 4), Del(1, 2, 4)>>, 4)>>) }

RECURSIVE SeqsUpTo(_, _)
SeqsUpTo(S, n) ==
  IF n = 0 THEN {<<>>}
  ELSE LET shorter == SeqsUpTo(S, n - 1)
       IN shorter \cup {Append(q, x) : q \in shorter, x \in S}

RevisionLists == SeqsUpTo(RevisionPool, MaxRevs) \cup {mockRevisions}

\* Options passed to the constructor, and to setOptions.
ConstructorOptions == {<<>>}
PartialOptions == {[speed |-> 2]}

JumpArgs == (0 - 2) .. MaxJump

\* ------------------------------------------------------- engine (object)
\* The engine's fields together with the host's timer table.
This ==
  [revisions |-> revisions,
   currentRevisionIndex |-> currentRevisionIndex,
   currentContent |-> currentContent,
   state |-> state,
   options |-> options,
   playbackInterval |-> playbackInterval,
   timers |-> timers,
   nextTimerId |-> nextTimerId]

MergeOptions(base, partial) ==
  [k \in DOMAIN base \cup DOMAIN partial |->
     IF k \in DOMAIN partial THEN partial[k] ELSE base[k]]

\* Variant: the constructor acts on autoPlay and marks the engine playing.
constructorAutoPlays(revs, opts) ==
  [revisions |-> revs,
   currentRevisionIndex |-> 0 - 1,
   currentContent |-> <<>>,
   state |-> IF MergeOptions(DEFAULT_PLAYBACK_OPTIONS, opts).autoPlay
             THEN PLAYING ELSE IDLE,
   options |-> MergeOptions(DEFAULT_PLAYBACK_OPTIONS, opts),
   playbackInterval |-> null,
   timers |-> {},
   nextTimerId |-> 1]

constructor(revs, opts) ==
  [revisions |-> revs,
   currentRevisionIndex |-> 0 - 1,
   currentContent |-> <<>>,
   state |-> IDLE,
   options |-> MergeOptions(DEFAULT_PLAYBACK_OPTIONS, opts),
   playbackInterval |-> null,
   timers |-> {},
   nextTimerId |-> 1]

\* window.setInterval / window.clearInterval
setInterval(this, interval) ==
  [this EXCEPT !.timers = @ \cup {[id |-> this.nextTimerId, interval |-> interval]},
               !.nextTimerId = @ + 1]

clearInterval(this, id) ==
  [this EXCEPT !.timers = {t \in @ : t.id # id}]

\* The for-loop of reconstructCurrentContent, from revision index i.
RECURSIVE ReplayLoop(_, _, _, _)
ReplayLoop(revs, i, last, content) ==
  IF i > last THEN content
  ELSE ReplayLoop(revs, i + 1, last,
                  applyCommandsToDocument(content, revs[i + 1].commands))

\* Variant: applies only the current revision's commands to the buffer the
\* engine already holds, instead of replaying from the empty document.
reconstructIncremental(this) ==
  IF this.currentRevisionIndex = 0 - 1
  THEN [this EXCEPT !.currentContent = <<>>]
  ELSE [this EXCEPT !.currentContent =
          applyCommandsToDocument(this.currentContent,
            this.revisions[this.currentRevisionIndex + 1].commands)]

\* Variant: the replay truncates the list it was given to the replayed
\* prefix.
reconstructConsumesRevisions(this) ==
  IF this.currentRevisionIndex = 0 - 1
  THEN [this EXCEPT !.currentContent = <<>>]
  ELSE [this EXCEPT !.currentContent =
          ReplayLoop(this.revisions, 0, this.currentRevisionIndex, <<>>),
                    !.revisions = SubSeq(@, 1, this.currentRevisionIndex + 1)]

\* Variant: the replay orders the revisions by their timestamp field (a
\* stable sort, latest last) before applying the prefix.
reconstructInTimestampOrder(this) ==
  LET RECURSIVE Insert(_, _)
      Insert(sorted, r) ==
        IF sorted = <<>> THEN <<r>>
        ELSE IF sorted[Len(sorted)].timestamp <= r.timestamp
             THEN Append(sorted, r)
             ELSE Append(Insert(SubSeq(sorted, 1, Len(sorted) - 1), r),
                         sorted[Len(sorted)])
      RECURSIVE Sorted(_, _)
      Sorted(revs, n) ==
        IF n = 0 THEN <<>> ELSE Insert(Sorted(revs, n - 1), revs[n])
  IN IF this.currentRevisionIndex = 0 - 1
     THEN [this EXCEPT !.currentContent = <<>>]
     ELSE [this EXCEPT !.currentContent =
             ReplayLoop(Sorted(this.revisions, Len(this.revisions)), 0,
                        this.currentRevisionIndex, <<>>)]

\* Variant: from the second revision on, the replay leaves out the first.
reconstructSkipsFirst(this) ==
  IF this.currentRevisionIndex = 0 - 1
  THEN [this EXCEPT !.currentContent = <<>>]
  ELSE [this EXCEPT !.currentContent =
          ReplayLoop(this.revisions,
                     IF this.currentRevisionIndex >= 1 THEN 1 ELSE 0,
                     this.currentRevisionIndex, <<>>)]

reconstructCurrentContent(this) ==
  IF this.currentRevisionIndex = 0 - 1
  THEN [this EXCEPT !.currentContent = <<>>]
  ELSE [this EXCEPT !.currentContent =
          ReplayLoop(this.revisions, 0, this.currentRevisionIndex, <<>>)]

\* Variant: manual stepping is refused while the engine is paused.
stepForwardRefusedWhenPaused(this) ==
  IF this.state = PAUSED \/ this.currentRevisionIndex >= Len(this.revisions) - 1
  THEN [this |-> this, ret |-> FALSE]
  ELSE [this |-> reconstructCurrentContent(
                   [this EXCEPT !.currentRevisionIndex = @ + 1]),
        ret |-> TRUE]

stepForward(this) ==
  IF this.currentRevisionIndex >= Len(this.revisions) - 1
  THEN [this |-> this, ret |-> FALSE]
  ELSE [this |-> reconstructCurrentContent(
                   [this EXCEPT !.currentRevisionIndex = @ + 1]),
        ret |-> TRUE]

\* Variant: no guard at the initial state.
stepBackwardNoGuard(this) ==
  [this |-> reconstructCurrentContent(
              [this EXCEPT !.currentRevisionIndex = @ - 1]),
   ret |-> TRUE]

\* Variant: moves the cursor back without recomputing the content.
stepBackwardKeepsContent(this) ==
  IF this.currentRevisionIndex <= 0 - 1
  THEN [this |-> this, ret |-> FALSE]
  ELSE [this |-> [this EXCEPT !.currentRevisionIndex = @ - 1], ret |-> TRUE]

\* Variant: a manual step back halts the autoplay.
stepBackwardPauses(this) ==
  IF this.currentRevisionIndex <= 0 - 1
  THEN [this |-> this, ret |-> FALSE]
  ELSE LET halted == IF this.playbackInterval # null
                     THEN [clearInterval(this, this.playbackInterval)
                             EXCEPT !.playbackInterval = null, !.state = PAUSED]
                     ELSE this
       IN [this |-> reconstructCurrentContent(
                      [halted EXCEPT !.currentRevisionIndex = @ - 1]),
           ret |-> TRUE]

stepBackward(this) ==
  IF this.currentRevisionIndex <= 0 - 1
  THEN [this |-> this, ret |-> FALSE]
  ELSE [this |-> reconstructCurrentContent(
                   [this EXCEPT !.currentRevisionIndex = @ - 1]),
        ret |-> TRUE]

\* Variant: a jump requested while the autoplay runs is dropped.
jumpIgnoredWhilePlaying(this, index) ==
  IF this.state = PLAYING
  THEN [this |-> this, ret |-> TRUE]
  ELSE IF index < 0 - 1
  THEN [this |-> [this EXCEPT !.currentRevisionIndex = 0 - 1,
                              !.currentContent = <<>>],
        ret |-> TRUE]
  ELSE IF index >= Len(this.revisions)
  THEN [this |-> reconstructCurrentContent(
                   [this EXCEPT !.currentRevisionIndex = Len(this.revisions) - 1]),
        ret |-> TRUE]
  ELSE [this |-> reconstructCurrentContent(
                   [this EXCEPT !.currentRevisionIndex = index]),
        ret |-> TRUE]

\* Variant: the branch for index < -1 moves the cursor but keeps the buffer.
jumpKeepsContent(this, index) ==
  IF index < 0 - 1
  THEN [this |-> [this EXCEPT !.currentRevisionIndex = 0 - 1], ret |-> TRUE]
  ELSE IF index >= Len(this.revisions)
  THEN [this |-> reconstructCurrentContent(
                   [this EXCEPT !.currentRevisionIndex = Len(this.revisions) - 1]),
        ret |-> TRUE]
  ELSE [this |-> reconstructCurrentContent(
                   [this EXCEPT !.currentRevisionIndex = index]),
        ret |-> TRUE]

\* Variant: no upper clamp; the cursor is set to whatever index >= -1 it is
\* given, and the replay stops at the end of the list.
jumpNoUpperClamp(this, index) ==
  IF index < 0 - 1
  THEN [this |-> [this EXCEPT !.currentRevisionIndex = 0 - 1,
                              !.currentContent = <<>>],
        ret |-> TRUE]
  ELSE [this |-> [this EXCEPT !.currentRevisionIndex = index,
                              !.currentContent =
                                ReplayLoop(this.revisions, 0,
                                           Min(index, Len(this.revisions) - 1), <<>>)],
        ret |-> TRUE]

\* Variant: an index beyond the list clamps to the first revision instead
\* of the last.
jumpClampsLow(this, index) ==
  IF index < 0 - 1
  THEN [this |-> [this EXCEPT !.currentRevisionIndex = 0 - 1,
                              !.currentContent = <<>>],
        ret |-> TRUE]
  ELSE IF index >= Len(this.revisions)
  THEN [this |-> reconstructCurrentContent(
                   [this EXCEPT !.currentRevisionIndex =
                                  Min(0, Len(this.revisions) - 1)]),
        ret |-> TRUE]
  ELSE [this |-> reconstructCurrentContent(
                   [this EXCEPT !.currentRevisionIndex = index]),
        ret |-> TRUE]

\* Variant: an index beyond the last revision is refused.
jumpRefusesBeyondEnd(this, index) ==
  IF index < 0 - 1
  THEN [this |-> [this EXCEPT !.currentRevisionIndex = 0 - 1,
                              !.currentContent = <<>>],
        ret |-> TRUE]
  ELSE IF index >= Len(this.revisions)
  THEN [this |-> this, ret |-> FALSE]
  ELSE [this |-> reconstructCurrentContent(
                   [this EXCEPT !.currentRevisionIndex = index]),
        ret |-> TRUE]

jumpToRevision(this, index) ==
  IF index < 0 - 1
  THEN [this |-> [this EXCEPT !.currentRevisionIndex = 0 - 1,
                              !.currentContent = <<>>],
        ret |-> TRUE]
  ELSE IF index >= Len(this.revisions)
  THEN [this |-> reconstructCurrentContent(
                   [this EXCEPT !.currentRevisionIndex = Len(this.revisions) - 1]),
        ret |-> TRUE]
  ELSE [this |-> reconstructCurrentContent(
                   [this EXCEPT !.currentRevisionIndex = index]),
        ret |-> TRUE]

\* Variant: playback always starts over from the initial state.
playRestarts(this) ==
  IF this.state = PLAYING
  THEN [this |-> this, ret |-> FALSE]
  ELSE LET playing == [this EXCEPT !.state = PLAYING,
                                   !.currentRevisionIndex = 0 - 1,
                                   !.currentContent = <<>>]
           interval == BaseInterval \div this.options.speed
           cleared == IF playing.playbackInterval # null
                      THEN clearInterval(playing, playing.playbackInterval)
                      ELSE playing
           started == setInterval(cleared, interval)
       IN [this |-> [started EXCEPT !.playbackInterval = cleared.nextTimerId],
           ret |-> TRUE]

\* Variant: no check for a playback already running.
playNoGuard(this) ==
  LET playing == [this EXCEPT !.state = PLAYING]
      interval == BaseInterval \div this.options.speed
      cleared == IF playing.playbackInterval # null
                 THEN clearInterval(playing, playing.playbackInterval)
                 ELSE playing
      started == setInterval(cleared, interval)
  IN [this |-> [started EXCEPT !.playbackInterval = cleared.nextTimerId],
      ret |-> TRUE]

play(this) ==
  IF this.state = PLAYING
  THEN [this |-> this, ret |-> FALSE]
  ELSE LET playing == [this EXCEPT !.state = PLAYING]
           interval == BaseInterval \div this.options.speed
           cleared == IF playing.playbackInterval # null
                      THEN clearInterval(playing, playing.playbackInterval)
                      ELSE playing
           started == setInterval(cleared, interval)
       IN [this |-> [started EXCEPT !.playbackInterval = cleared.nextTimerId],
           ret |-> TRUE]

\* Variant: changes the state but leaves the host timer running.
pauseKeepsTimer(this) ==
  IF this.state # PLAYING
  THEN [this |-> this, ret |-> FALSE]
  ELSE [this |-> [this EXCEPT !.state = PAUSED], ret |-> TRUE]

\* Variant: no check of the current state.
pauseAnyState(this) ==
  LET cleared == IF this.playbackInterval # null
                 THEN [clearInterval(this, this.playbackInterval)
                         EXCEPT !.playbackInterval = null]
                 ELSE this
  IN [this |-> [cleared EXCEPT !.state = PAUSED], ret |-> TRUE]

\* Variant: forgets the handle without cancelling the host timer.
pauseDropsHandle(this) ==
  IF this.state # PLAYING
  THEN [this |-> this, ret |-> FALSE]
  ELSE [this |-> [this EXCEPT !.playbackInterval = null, !.state = PAUSED],
        ret |-> TRUE]

pause(this) ==
  IF this.state # PLAYING
  THEN [this |-> this, ret |-> FALSE]
  ELSE LET cleared == IF this.playbackInterval # null
                      THEN [clearInterval(this, this.playbackInterval)
                              EXCEPT !.playbackInterval = null]
                      ELSE this
       IN [this |-> [cleared EXCEPT !.state = PAUSED], ret |-> TRUE]

\* Variant: resets the fields without pausing first.
resetWithoutPause(this) ==
  [this EXCEPT !.currentRevisionIndex = 0 - 1,
               !.currentContent = <<>>,
               !.state = IDLE]

reset(this) ==
  [pause(this).this EXCEPT !.currentRevisionIndex = 0 - 1,
                           !.currentContent = <<>>,
                           !.state = IDLE]

getOptions(this) == [k \in DOMAIN this.options |-> this.options[k]]

\* Variant: a new speed is applied to the timer that is already running.
setOptionsRetimes(this, opts) ==
  LET merged == MergeOptions(this.options, opts)
  IN [this EXCEPT !.options = merged,
                  !.timers = {[t EXCEPT !.interval = BaseInterval \div merged.speed]
                                : t \in @}]

setOptions(this, opts) ==
  [this EXCEPT !.options = MergeOptions(@, opts)]

\* Variant: completes as soon as the step lands on the last revision.
intervalStopsOnLast(this) ==
  LET stepped == stepForward(this)
  IN IF ~stepped.ret
        \/ stepped.this.currentRevisionIndex >= Len(this.revisions) - 1
     THEN [pause(stepped.this).this EXCEPT !.state = IDLE]
     ELSE stepped.this

\* Variant: completion pauses and does not go on to IDLE.
intervalLeavesPaused(this) ==
  LET stepped == stepForward(this)
  IN IF ~stepped.ret
     THEN pause(stepped.this).this
     ELSE stepped.this

\* Variant: completion sets IDLE without cancelling the timer.
intervalKeepsTimer(this) ==
  LET stepped == stepForward(this)
  IN IF ~stepped.ret
     THEN [stepped.this EXCEPT !.state = IDLE]
     ELSE stepped.this

\* The callback handed to window.setInterval by play().
intervalCallback(this) ==
  LET stepped == stepForward(this)
  IN IF ~stepped.ret
     THEN [pause(stepped.this).this EXCEPT !.state = IDLE]
     ELSE stepped.this

\* ------------------------------------------------------------- behaviour
\* Ticks fired since the last play() that started a timer, while no other
\* call intervened: the cursor and state play() found, and the tick count.
NoRun == [from |-> 0 - 2, was |-> IDLE, ticks |-> 0]

NotParsed == [tag |-> "none"]
NoPayload == [jstype |-> "undefined"]

PureIdle ==
  /\ buffer = <<>>
  /\ bufferBefore = <<>>
  /\ applied = <<>>
  /\ payload = NoPayload
  /\ parsed = NotParsed

Void == <<>>
Returned(b) == <<b>>

Becomes(this) ==
  /\ revisions' = this.revisions
  /\ currentRevisionIndex' = this.currentRevisionIndex
  /\ currentContent' = this.currentContent
  /\ state' = this.state
  /\ options' = this.options
  /\ playbackInterval' = this.playbackInterval
  /\ timers' = this.timers
  /\ nextTimerId' = this.nextTimerId
  /\ UNCHANGED pureVars

Init ==
  \E revs \in RevisionLists, opts \in ConstructorOptions :
    LET this == constructor(revs, opts)
    IN /\ revisions = this.revisions
       /\ currentRevisionIndex = this.currentRevisionIndex
       /\ currentContent = this.currentContent
       /\ state = this.state
       /\ options = this.options
       /\ playbackInterval = this.playbackInterval
       /\ timers = this.timers
       /\ nextTimerId = this.nextTimerId
       /\ op = "constructor"
       /\ arg = <<>>
       /\ ret = Void
       /\ run = NoRun
       /\ PureIdle

StepForward ==
  LET r == stepForward(This)
  IN /\ Becomes(r.this)
     /\ op' = "stepForward"
     /\ arg' = <<>>
     /\ ret' = Returned(r.ret)
     /\ run' = NoRun

StepBackward ==
  LET r == stepBackward(This)
  IN /\ Becomes(r.this)
     /\ op' = "stepBackward"
     /\ arg' = <<>>
     /\ ret' = Returned(r.ret)
     /\ run' = NoRun

JumpToRevision ==
  \E index \in JumpArgs :
    LET r == jumpToRevision(This, index)
    IN /\ Becomes(r.this)
       /\ op' = "jumpToRevision"
       /\ arg' = <<index>>
       /\ ret' = Returned(r.ret)
       /\ run' = NoRun

Play ==
  /\ nextTimerId <= MaxTimerIds
  /\ LET r == play(This)
     IN /\ Becomes(r.this)
        /\ op' = "play"
        /\ arg' = <<>>
        /\ ret' = Returned(r.ret)
        /\ run' = IF r.ret THEN [from |-> currentRevisionIndex, was |-> state, ticks |-> 0]
                  ELSE NoRun

Pause ==
  LET r == pause(This)
  IN /\ Becomes(r.this)
     /\ op' = "pause"
     /\ arg' = <<>>
     /\ ret' = Returned(r.ret)
     /\ run' = NoRun

Reset ==
  /\ Becomes(reset(This))
  /\ op' = "reset"
  /\ arg' = <<>>
  /\ ret' = Void
  /\ run' = NoRun

SetOptions ==
  \E opts \in PartialOptions :
    /\ Becomes(setOptions(This, opts))
    /\ op' = "setOptions"
    /\ arg' = <<opts>>
    /\ ret' = Void
    /\ run' = NoRun

\* An active interval timer fires; the callback runs to completion.
Tick ==
  \E t \in timers :
    /\ Becomes(intervalCallback(This))
    /\ op' = "tick"
    /\ arg' = <<>>
    /\ ret' = Void
    /\ run' = IF run = NoRun THEN NoRun ELSE [run EXCEPT !.ticks = @ + 1]

Next ==
  \/ StepForward
  \/ StepBackward
  \/ JumpToRevision
  \/ Play
  \/ Pause
  \/ Reset
  \/ SetOptions
  \/ Tick

Spec == Init /\ [][Next]_vars

\* Autoplay left alone: the consumer positions the cursor, calls play()
\* once and makes no call after it; the host keeps firing the interval
\* timer while it is active (a tick that stays possible eventually happens).
Position == nextTimerId = 1 /\ JumpToRevision
Start == nextTimerId = 1 /\ Play

NextAutoplay ==
  \/ Position
  \/ Start
  \/ Tick

\* Weak fairness of Tick, written out: Tick is possible exactly while a
\* timer is active, and the steps with op' = "tick" are the Tick steps.
TickFairness ==
  \/ []<>(timers = {})
  \/ []<><<op' = "tick">>_vars

SpecAutoplay == Init /\ [][NextAutoplay]_vars /\ TickFairness

\* The engine under every combination of the recognised options, at
\* construction and through setOptions, over the empty list and the
\* three-revision set.
OptionRevisionLists == {<<>>, mockRevisions}

AllConstructorOptions ==
  {<<>>, [autoPlay |-> TRUE], [speed |-> 2], [speed |-> 4, autoPlay |-> TRUE],
   [speed |-> 2, theme |-> "dark"]}

AllPartialOptions ==
  {[speed |-> 1], [speed |-> 2], [speed |-> 4], [autoPlay |-> TRUE],
   [theme |-> "dark"]}

InitOptions ==
  \E revs \in OptionRevisionLists, opts \in AllConstructorOptions :
    LET this == constructor(revs, opts)
    IN /\ revisions = this.revisions
       /\ currentRevisionIndex = this.currentRevisionIndex
       /\ currentContent = this.currentContent
       /\ state = this.state
       /\ options = this.options
       /\ playbackInterval = this.playbackInterval
       /\ timers = this.timers
       /\ nextTimerId = this.nextTimerId
       /\ op = "constructor"
       /\ arg = <<opts>>
       /\ ret = Void
       /\ run = NoRun
       /\ PureIdle

SetAnyOptions ==
  \E opts \in AllPartialOptions :
    /\ Becomes(setOptions(This, opts))
    /\ op' = "setOptions"
    /\ arg' = <<opts>>
    /\ ret' = Void
    /\ run' = NoRun

NextOptions ==
  \/ StepForward
  \/ StepBackward
  \/ JumpToRevision
  \/ Play
  \/ Pause
  \/ Reset
  \/ SetAnyOptions
  \/ Tick

SpecOptions == InitOptions /\ [][NextOptions]_vars

\* ------------------------------------------------ interpreter on its own
\* applyCommandsToDocument called with bounded documents and command lists;
\* the result is the document of the next call while it is short enough.
engineVars == <<revisions, currentRevisionIndex, currentContent, state, options,
                playbackInterval, timers, nextTimerId, op, arg, ret, run>>

\* An engine over no revisions that is never called.
EngineIdle ==
  LET this == constructor(<<>>, <<>>)
  IN /\ revisions = this.revisions
     /\ currentRevisionIndex = this.currentRevisionIndex
     /\ currentContent = this.currentContent
     /\ state = this.state
     /\ options = this.options
     /\ playbackInterval = this.playbackInterval
     /\ timers = this.timers
     /\ nextTimerId = this.nextTimerId
     /\ op = "constructor"
     /\ arg = <<>>
     /\ ret = Void
     /\ run = NoRun

Alphabet == {"a", "b"}
Documents == SeqsUpTo(Alphabet, MaxDocLen)
Texts == {<<"x">>, <<"x", "x">>}
Indices == 0 .. MaxIndex

Inserts == {Ins(i, t, 1) : i \in Indices, t \in Texts}
Deletes == {Del(a, b, 2) : a \in Indices, b \in Indices}
Styles == {Sty(a, b, 3) : a \in {0, 1}, b \in {1, MaxIndex}}
Unknown == [ty |-> "zz", timestamp |-> 4]

\* Bodies of multi commands, also applied as plain lists.
Subcommands ==
  { Ins(0, <<"x">>, 5), Ins(1, <<"x", "x">>, 5), Del(0, 1, 5), Del(1, 3, 5),
    Sty(0, 1, 5), Mul(<<Ins(0, <<"x">>, 5), Del(1, 2, 5)>>, 5) }
Bodies == SeqsUpTo(Subcommands, 2)
Multis == {Mul(cs, 5) : cs \in Bodies}

\* An insert followed by the delete of the range it filled.
RoundTrips == {<<Ins(i, t, 1), Del(i, i + Len(t), 2)>> : i \in Indices, t \in Texts}

CommandLists ==
  {<<c>> : c \in Inserts \cup Deletes \cup Styles \cup Multis \cup {Unknown}}
    \cup Bodies \cup RoundTrips

InitApply ==
  /\ buffer \in Documents
  /\ bufferBefore = buffer
  /\ applied = <<>>
  /\ payload = NoPayload
  /\ parsed = NotParsed
  /\ EngineIdle

Apply ==
  \E cs \in CommandLists :
    /\ Len(buffer) <= MaxDocLen
    /\ bufferBefore' = buffer
    /\ applied' = cs
    /\ buffer' = applyCommandsToDocument(buffer, cs)
    /\ UNCHANGED <<payload, parsed>>
    /\ UNCHANGED engineVars

NextApply == Apply

SpecApply == InitApply /\ [][NextApply]_vars

\* ----------------------------------------------------- parser on its own
\* parseRevisionData called once on a bounded raw payload.
RawIns(i, text, ts) == [jstype |-> "object", ty |-> "is", ibi |-> i, s |-> text, ts |-> ts]
RawDel(a, b, ts) == [jstype |-> "object", ty |-> "ds", si |-> a, ei |-> b, ts |-> ts]
RawSty(a, b, ts) == [jstype |-> "object", ty |-> "st", si |-> a, ei |-> b, s |-> "bold", ts |-> ts]
RawMul(cs, ts) == [jstype |-> "object", ty |-> "mlti", cmds |-> cs, ts |-> ts]
RawUnknown == [jstype |-> "object", ty |-> "xx", ts |-> 9]
RawMulNoCmds == [jstype |-> "object", ty |-> "mlti", ts |-> 8]

KnownTypes == {"is", "ds", "st", "mlti"}

WellFormedChanges ==
  { RawIns(0, <<"a">>, 1), RawIns(1, <<"b">>, 2), RawDel(0, 1, 3),
    RawSty(0, 1, 4),
    RawMul(<<RawIns(0, <<"c">>, 5), RawSty(0, 1, 5)>>, 5),
    RawMul(<<RawMul(<<RawDel(0, 1, 6)>>, 6)>>, 6) }

UnknownChanges ==
  { RawUnknown, RawMul(<<RawIns(0, <<"c">>, 7), RawUnknown, RawDel(0, 1, 7)>>, 7) }

BrokenChanges == {JsNull, JsNumber, RawMulNoCmds, RawMul(<<JsNull>>, 8)}

RawChanges == WellFormedChanges \cup UnknownChanges \cup BrokenChanges

RawPayload(changes) ==
  [jstype |-> "object", revisionId |-> "rev-1", timestamp |-> 100,
   changelog |-> [jstype |-> "object", changes |-> changes]]

Payloads ==
  {RawPayload(changes) : changes \in SeqsUpTo(RawChanges, MaxChanges)}
    \cup { JsNull,
           [jstype |-> "undefined"],
           JsNumber,
           [jstype |-> "object"],
           [jstype |-> "object", revisionId |-> "rev-1", timestamp |-> 100],
           [jstype |-> "object", revisionId |-> "rev-1", timestamp |-> 100,
            changelog |-> JsNull],
           [jstype |-> "object", revisionId |-> "rev-1", timestamp |-> 100,
            changelog |-> [jstype |-> "object"]],
           [jstype |-> "object", timestamp |-> 100,
            changelog |-> [jstype |-> "object", changes |-> <<RawDel(0, 1, 3)>>]],
           [jstype |-> "object", revisionId |-> "rev-1",
            changelog |-> [jstype |-> "object", changes |-> <<RawDel(0, 1, 3)>>]] }

InitParse ==
  /\ payload \in Payloads
  /\ parsed = NotParsed
  /\ buffer = <<>>
  /\ bufferBefore = <<>>
  /\ applied = <<>>
  /\ EngineIdle

Parse ==
  /\ parsed = NotParsed
  /\ parsed' = parseRevisionData(payload)
  /\ UNCHANGED <<payload, buffer, bufferBefore, applied>>
  /\ UNCHANGED engineVars

NextParse == Parse

SpecParse == InitParse /\ [][NextParse]_vars

TypeOK ==
  /\ state \in PlaybackState
  /\ currentRevisionIndex \in Int
  /\ playbackInterval \in Nat

\* ------------------------------------------------------------ properties
N == Len(revisions)
Cursors == (0 - 1) .. (N - 1)

\* The replay of revisions 0..k, defined on the prefix: the replay through
\* k is the replay through k-1 followed by the commands of revision k.
RECURSIVE ReplayThrough(_, _)
ReplayThrough(revs, k) ==
  IF k = 0 - 1 THEN <<>>
  ELSE applyCommandsToDocument(ReplayThrough(revs, k - 1), revs[k + 1].commands)

\* C1: in every reachable state the content equals the fold of
\* applyCommandsToDocument over revisions[0..revisionIndex] from the empty
\* document, and is empty when revisionIndex is -1.
C1_ContentIsReplay ==
  /\ currentContent = ReplayThrough(revisions, currentRevisionIndex)
  /\ currentRevisionIndex = 0 - 1 => currentContent = <<>>

C1_Witness ==
  /\ op = "tick"
  /\ currentRevisionIndex = 2
  /\ currentContent = HelloWorldBang

\* C2: in every reachable state -1 <= revisionIndex <= N-1, for every
\* integer argument of jumpToRevision and every interleaving with ticks.
C2_CursorInRange ==
  /\ currentRevisionIndex \in Int
  /\ 0 - 1 <= currentRevisionIndex
  /\ currentRevisionIndex <= N - 1

C2_Witness ==
  /\ op = "jumpToRevision"
  /\ arg = <<MaxJump>>
  /\ state = PLAYING
  /\ currentRevisionIndex = N - 1
  /\ N = 2

\* C3: clamping law. In every reachable state, jumpToRevision(x) with
\* x < -1 gives the same engine and return value as jumpToRevision(-1),
\* with x >= N the same as jumpToRevision(N-1), and it returns true for
\* every integer x.
C3_ClampingLaw ==
  \A x \in JumpArgs :
    /\ x < 0 - 1 => jumpToRevision(This, x) = jumpToRevision(This, 0 - 1)
    /\ x >= N => jumpToRevision(This, x) = jumpToRevision(This, N - 1)
    /\ jumpToRevision(This, x).ret = TRUE

C3_Witness ==
  /\ op = "jumpToRevision"
  /\ arg = <<0 - 2>>
  /\ state = PLAYING
  /\ N = 2
  /\ timers # {}

\* C4: the content after jumpToRevision(i) depends only on i. For all
\* valid cursors i and j, from every reachable state: jumping to i twice
\* gives the same content both times, and jumping to i, j, i gives the
\* content of jumping to i in a freshly constructed engine.
C4_PathIndependence ==
  \A i \in Cursors :
    LET once == jumpToRevision(This, i).this
        direct == jumpToRevision(constructor(revisions, <<>>), i).this.currentContent
    IN /\ jumpToRevision(once, i).this.currentContent = once.currentContent
       /\ \A j \in Cursors :
            jumpToRevision(jumpToRevision(once, j).this, i).this.currentContent
              = direct

C4_Witness ==
  /\ op = "jumpToRevision"
  /\ arg = <<1>>
  /\ currentRevisionIndex = 1
  /\ currentContent = <<"c">>

\* C5: at most one autoplay timer is active in every reachable state.
C5_AtMostOneTimer == Cardinality(timers) <= 1

C5_Witness ==
  /\ op = "play"
  /\ ret = <<TRUE>>
  /\ nextTimerId = 3
  /\ Cardinality(timers) = 1
  /\ run.was = PAUSED

\* C6 as stated: play() on the three-revision set from IDLE at cursor -1,
\* then exactly three ticks, leaves state IDLE, revisionIndex 2 and content
\* "Hello world!".
PlayedMockFromStart ==
  /\ revisions = mockRevisions
  /\ run.from = 0 - 1
  /\ run.was = IDLE

C6_AsStated ==
  (PlayedMockFromStart /\ run.ticks = 3) =>
    /\ state = IDLE
    /\ currentRevisionIndex = 2
    /\ currentContent = HelloWorldBang

\* C6 (amended): after play() on the three-revision set from IDLE at
\* cursor -1, three ticks leave revisionIndex 2 and content "Hello world!"
\* with the state still PLAYING and the timer active; the fourth tick
\* leaves state IDLE, revisionIndex 2, content "Hello world!", no timer.
C6_PlayToCompletion ==
  PlayedMockFromStart =>
    /\ run.ticks = 3 =>
         /\ state = PLAYING
         /\ timers # {}
         /\ currentRevisionIndex = 2
         /\ currentContent = HelloWorldBang
    /\ run.ticks = 4 =>
         /\ state = IDLE
         /\ timers = {}
         /\ currentRevisionIndex = 2
         /\ currentContent = HelloWorldBang
    /\ run.ticks <= 4

C6_Witness ==
  /\ PlayedMockFromStart
  /\ op = "tick"
  /\ run.ticks = 4

\* C7: each tick performs exactly one stepForward(): below the last index
\* the cursor advances by one, the content becomes the replay through the
\* new cursor, and state and timer stay. A tick that finds the cursor at
\* the last index cancels the timer and sets state IDLE, leaving cursor
\* and content unchanged.
TickEffect ==
  IF currentRevisionIndex < N - 1
  THEN /\ currentRevisionIndex' = currentRevisionIndex + 1
       /\ currentContent' = ReplayThrough(revisions, currentRevisionIndex + 1)
       /\ UNCHANGED <<state, timers, playbackInterval>>
  ELSE /\ state' = IDLE
       /\ timers' = {}
       /\ playbackInterval' = null
       /\ UNCHANGED <<currentRevisionIndex, currentContent>>

C7_TickStepsOrCompletes == [][op' = "tick" => TickEffect]_vars

C7_Witness ==
  /\ op = "tick"
  /\ state = IDLE
  /\ timers = {}
  /\ currentRevisionIndex = N - 1
  /\ N = 2

\* C8: when pause() (called while PLAYING) or reset() returns, no timer is
\* left; a timer appears again only through play(); a tick fires only for
\* an active timer; so while no timer is active the cursor and the content
\* change only through stepForward, stepBackward, jumpToRevision or reset.
C8_NoTickAfterCancel ==
  [][ /\ ((op' = "pause" /\ ret' = <<TRUE>>) \/ op' = "reset") => timers' = {}
      /\ (timers = {} /\ timers' # {}) => op' = "play"
      /\ op' = "tick" => timers # {}
      /\ (timers = {} /\ <<currentRevisionIndex, currentContent>>'
                           # <<currentRevisionIndex, currentContent>>)
           => op' \in {"stepForward", "stepBackward", "jumpToRevision", "reset"}
    ]_vars

C8_Witness ==
  /\ op = "pause"
  /\ ret = <<TRUE>>
  /\ state = PAUSED
  /\ timers = {}
  /\ currentRevisionIndex = 0

\* C9: play() returns true, sets state PLAYING and leaves a running timer
\* held in playbackInterval exactly when the state before the call is not
\* PLAYING, at any cursor; when the state is PLAYING it returns false and
\* changes neither state, cursor, content nor timer.
PlayEffect ==
  IF state # PLAYING
  THEN /\ ret' = <<TRUE>>
       /\ state' = PLAYING
       /\ playbackInterval' # null
       /\ \E t \in timers' : t.id = playbackInterval'
       /\ UNCHANGED <<currentRevisionIndex, currentContent>>
  ELSE /\ ret' = <<FALSE>>
       /\ UNCHANGED <<state, currentRevisionIndex, currentContent,
                      timers, playbackInterval>>

C9_PlayOnlyWhenNotPlaying == [][op' = "play" => PlayEffect]_vars

C9_WitnessRefused ==
  /\ op = "play"
  /\ ret = <<FALSE>>
  /\ state = PLAYING
  /\ currentRevisionIndex = 1

C9_WitnessStarted ==
  /\ op = "play"
  /\ ret = <<TRUE>>
  /\ run.was = PAUSED
  /\ run.from = 1

\* C10: pause() in state PLAYING cancels the timer, sets state PAUSED and
\* returns true; in any other state it returns false and leaves state,
\* cursor, content and timer unchanged; PAUSED is entered only from
\* PLAYING, by pause().
PauseEffect ==
  IF state = PLAYING
  THEN /\ ret' = <<TRUE>>
       /\ state' = PAUSED
       /\ timers' = {t \in timers : t.id # playbackInterval}
       /\ timers' = {}
       /\ playbackInterval' = null
       /\ UNCHANGED <<currentRevisionIndex, currentContent>>
  ELSE /\ ret' = <<FALSE>>
       /\ UNCHANGED <<state, currentRevisionIndex, currentContent,
                      timers, playbackInterval>>

C10_PauseOnlyWhenPlaying ==
  [][ /\ op' = "pause" => PauseEffect
      /\ (state' = PAUSED /\ state # PAUSED) => (state = PLAYING /\ op' = "pause")
    ]_vars

C10_Witness ==
  /\ op = "pause"
  /\ ret = <<FALSE>>
  /\ state = IDLE
  /\ currentRevisionIndex = 1

\* C11: reset() called in any reachable state leaves cursor -1, content
\* "", state IDLE and no active timer, and a second reset() changes
\* nothing.
C11_ResetEffect ==
  LET after == reset(This)
  IN /\ after.currentRevisionIndex = 0 - 1
     /\ after.currentContent = <<>>
     /\ after.state = IDLE
     /\ after.timers = {}
     /\ after.playbackInterval = null
     /\ reset(after) = after
     /\ op = "reset" =>
          /\ currentRevisionIndex = 0 - 1
          /\ currentContent = <<>>
          /\ state = IDLE
          /\ timers = {}

C11_Witness ==
  /\ op = "reset"
  /\ nextTimerId = 3
  /\ N = 2
  /\ state = IDLE
  /\ timers = {}

\* C12 as stated: pause() and a subsequent play() leave cursor and content
\* unchanged; while PAUSED no tick changes the cursor; the first tick after
\* resuming advances the cursor by exactly one from the paused position.
PauseAndPlayKeepPosition ==
  /\ op' \in {"pause", "play"} =>
       UNCHANGED <<currentRevisionIndex, currentContent>>
  /\ state = PAUSED =>
       /\ timers = {}
       /\ op' = "tick" => currentRevisionIndex' = currentRevisionIndex

FirstTickAfterResume ==
  /\ run.was = PAUSED
  /\ run.ticks = 0
  /\ op' = "tick"

C12_AsStated ==
  [][ /\ PauseAndPlayKeepPosition
      /\ FirstTickAfterResume => currentRevisionIndex' = run.from + 1
    ]_vars

\* C12 (amended): as stated, except that the first tick after resuming
\* advances the cursor by exactly one only when the paused position is
\* below N-1; at N-1 it leaves the cursor and completes playback (IDLE).
C12_ResumeContinues ==
  [][ /\ PauseAndPlayKeepPosition
      /\ FirstTickAfterResume =>
           /\ currentRevisionIndex = run.from
           /\ IF run.from < N - 1
              THEN /\ currentRevisionIndex' = run.from + 1
                   /\ state' = PLAYING
              ELSE /\ currentRevisionIndex' = run.from
                   /\ state' = IDLE
    ]_vars

C12_Witness ==
  /\ op = "tick"
  /\ run.was = PAUSED
  /\ run.ticks = 1
  /\ run.from = 0
  /\ currentRevisionIndex = 1
  /\ revisions = mockRevisions

\* C13: a navigation call made between two ticks while PLAYING takes full
\* effect before the next tick (after jumpToRevision(k) the cursor is k
\* clamped into [-1, N-1] and the content its replay), and the next tick
\* steps from that position: to k+1 when below N-1, otherwise playback
\* completes to IDLE at that position.
Clamp(k) == IF k < 0 - 1 THEN 0 - 1 ELSE IF k >= N THEN N - 1 ELSE k

NavigatedWhilePlaying ==
  /\ state = PLAYING
  /\ op \in {"jumpToRevision", "stepForward", "stepBackward"}

C13_TickAfterNavigation ==
  [][ (NavigatedWhilePlaying /\ op' = "tick") =>
        /\ op = "jumpToRevision" => currentRevisionIndex = Clamp(arg[1])
        /\ currentContent = ReplayThrough(revisions, currentRevisionIndex)
        /\ IF currentRevisionIndex < N - 1
           THEN /\ currentRevisionIndex' = currentRevisionIndex + 1
                /\ currentContent' =
                     ReplayThrough(revisions, currentRevisionIndex + 1)
                /\ state' = PLAYING
           ELSE /\ currentRevisionIndex' = currentRevisionIndex
                /\ currentContent' = currentContent
                /\ state' = IDLE
    ]_vars

C13_Witness ==
  /\ op = "tick"
  /\ state = PLAYING
  /\ run = NoRun
  /\ currentRevisionIndex = 2
  /\ revisions = mockRevisions

\* C14: the state leaves PLAYING only through pause(), reset() or a tick
\* that finds the cursor at the last revision; stepForward, stepBackward,
\* jumpToRevision, setOptions and a repeated play() keep the state PLAYING
\* and the timer running.
C14_PlaybackStopsOnlyExplicitly ==
  [][ state = PLAYING =>
        /\ state' # PLAYING =>
             \/ op' \in {"pause", "reset"}
             \/ op' = "tick" /\ currentRevisionIndex = N - 1
        /\ op' \in {"stepForward", "stepBackward", "jumpToRevision",
                    "setOptions", "play"} =>
             /\ state' = PLAYING
             /\ timers' = timers
             /\ timers' # {}
    ]_vars

C14_Witness ==
  /\ op = "stepBackward"
  /\ ret = <<TRUE>>
  /\ state = PLAYING
  /\ timers # {}
  /\ currentRevisionIndex = 0

\* C15: stepForward, stepBackward and jumpToRevision have the same effect
\* on cursor and content and return the same value in every playback state
\* (IDLE, PLAYING, PAUSED), and leave the playback state, the options and
\* the timer unchanged.
SameNavigation(r, q) ==
  /\ r.ret = q.ret
  /\ r.this.currentRevisionIndex = q.this.currentRevisionIndex
  /\ r.this.currentContent = q.this.currentContent

KeepsPlayback(r, before) ==
  /\ r.this.state = before.state
  /\ r.this.options = before.options
  /\ r.this.timers = before.timers
  /\ r.this.playbackInterval = before.playbackInterval

C15_NavigationIgnoresPlayback ==
  \A s \in {IDLE, PLAYING, PAUSED} :
    LET in == [This EXCEPT !.state = s]
    IN /\ SameNavigation(stepForward(in), stepForward(This))
       /\ KeepsPlayback(stepForward(in), in)
       /\ SameNavigation(stepBackward(in), stepBackward(This))
       /\ KeepsPlayback(stepBackward(in), in)
       /\ \A x \in JumpArgs :
            /\ SameNavigation(jumpToRevision(in, x), jumpToRevision(This, x))
            /\ KeepsPlayback(jumpToRevision(in, x), in)

C15_Witness ==
  /\ op = "stepForward"
  /\ ret = <<TRUE>>
  /\ state = PAUSED
  /\ currentRevisionIndex = 1
  /\ options.speed = 2

\* C16: stepForward() with the cursor at N-1 returns false and changes
\* neither cursor, content nor playback state; stepBackward() with the
\* cursor at -1 returns false and changes nothing either.
EngineUnchanged ==
  UNCHANGED <<revisions, currentRevisionIndex, currentContent, state,
              options, playbackInterval, timers, nextTimerId>>

C16_StepsAtTheEdges ==
  [][ /\ (op' = "stepForward" /\ currentRevisionIndex = N - 1) =>
           (ret' = <<FALSE>> /\ EngineUnchanged)
      /\ (op' = "stepBackward" /\ currentRevisionIndex = 0 - 1) =>
           (ret' = <<FALSE>> /\ EngineUnchanged)
    ]_vars

C16_Witness ==
  /\ op = "stepForward"
  /\ ret = <<FALSE>>
  /\ currentRevisionIndex = N - 1
  /\ N = 2
  /\ state = PLAYING

C16_WitnessBackward ==
  /\ op = "stepBackward"
  /\ ret = <<FALSE>>
  /\ currentRevisionIndex = 0 - 1
  /\ N = 2
  /\ state = PAUSED

\* C17: below N-1, stepForward() returns true, increases the cursor by
\* exactly 1 and sets the content to the replay through the new cursor;
\* above -1, stepBackward() returns true, decreases the cursor by exactly
\* 1 and sets the content to the replay through the new cursor (empty on
\* reaching -1).
C17_StepsMoveByOne ==
  [][ /\ (op' = "stepForward" /\ currentRevisionIndex < N - 1) =>
           /\ ret' = <<TRUE>>
           /\ currentRevisionIndex' = currentRevisionIndex + 1
           /\ currentContent' =
                ReplayThrough(revisions, currentRevisionIndex + 1)
      /\ (op' = "stepBackward" /\ currentRevisionIndex > 0 - 1) =>
           /\ ret' = <<TRUE>>
           /\ currentRevisionIndex' = currentRevisionIndex - 1
           /\ currentContent' =
                ReplayThrough(revisions, currentRevisionIndex - 1)
           /\ currentRevisionIndex' = 0 - 1 => currentContent' = <<>>
    ]_vars

C17_Witness ==
  /\ op = "stepBackward"
  /\ ret = <<TRUE>>
  /\ currentRevisionIndex = 0
  /\ currentContent = <<"a", "b">>
  /\ N = 2

\* C18: a newly constructed engine has revisionIndex -1, content "",
\* state IDLE and no timer for every options value passed (autoPlay = true
\* included), and the states LOADING and ERROR are never reached.
FreshEngine(e) ==
  /\ e.currentRevisionIndex = 0 - 1
  /\ e.currentContent = <<>>
  /\ e.state = IDLE
  /\ e.timers = {}
  /\ e.playbackInterval = null

C18_FreshEngineIdle ==
  /\ op = "constructor" => FreshEngine(This)
  /\ \A opts \in AllConstructorOptions : FreshEngine(constructor(revisions, opts))
  /\ state \in {IDLE, PLAYING, PAUSED}
  /\ state \notin {LOADING, ERROR}

C18_Witness ==
  /\ op = "constructor"
  /\ arg = <<[speed |-> 4, autoPlay |-> TRUE]>>
  /\ options.autoPlay = TRUE
  /\ state = IDLE
  /\ timers = {}
  /\ revisions = mockRevisions

\* C19: setOptions shallow-merges the given keys into the current options
\* and leaves a running timer alone: a speed change while PLAYING keeps
\* the interval of the running timer, and the new speed sets the interval
\* (100 / speed) only of the timer the next successful play() starts.
ShallowMerged(old, given, new) ==
  /\ DOMAIN new = DOMAIN old \cup DOMAIN given
  /\ \A k \in DOMAIN given : new[k] = given[k]
  /\ \A k \in DOMAIN old \ DOMAIN given : new[k] = old[k]

C19_SetOptionsKeepsTimer ==
  [][ /\ op' = "setOptions" =>
           /\ ShallowMerged(options, arg'[1], options')
           /\ UNCHANGED <<timers, playbackInterval, state,
                          currentRevisionIndex, currentContent>>
      /\ (op' = "play" /\ ret' = <<TRUE>>) =>
           timers' = {[id |-> playbackInterval',
                       interval |-> BaseInterval \div options.speed]}
      /\ op' # "play" => timers' \subseteq timers
    ]_vars

C19_Witness ==
  /\ op = "setOptions"
  /\ arg = <<[speed |-> 4]>>
  /\ state = PLAYING
  /\ options.speed = 4
  /\ timers = {[id |-> 1, interval |-> 50]}

C19_WitnessNextPlay ==
  /\ op = "play"
  /\ ret = <<TRUE>>
  /\ options.speed = 4
  /\ timers = {[id |-> 2, interval |-> 25]}

\* C20: no engine operation or tick changes the revision list, a revision
\* or a command: the list is the one passed at construction in every
\* reachable state.
C20_RevisionsNeverMutated ==
  [][ /\ revisions' = revisions
      /\ revisions' \in RevisionLists
    ]_vars

C20_Witness ==
  /\ op = "stepBackward"
  /\ ret = <<TRUE>>
  /\ run = NoRun
  /\ nextTimerId = 3
  /\ currentRevisionIndex = 1
  /\ revisions = mockRevisions

\* ---------------------------------------------------------------------
\* The same list with every timestamp field replaced: "reverse" stamps the
\* revisions in decreasing order and negates the commands' stamps, "equal"
\* makes every stamp 0.
Retimings == {"reverse", "equal"}

RECURSIVE RetimedCommand(_, _)
RetimedCommand(c, how) ==
  LET stamped == [c EXCEPT !.timestamp = IF how = "reverse" THEN 100 - @ ELSE 0]
  IN IF c.ty = MULTI
     THEN [stamped EXCEPT !.cmds =
             [j \in 1..Len(c.cmds) |-> RetimedCommand(c.cmds[j], how)]]
     ELSE stamped

Retimed(revs, how) ==
  [i \in 1..Len(revs) |->
     [revs[i] EXCEPT
        !.timestamp = IF how = "reverse" THEN Len(revs) - i ELSE 0,
        !.commands = [j \in 1..Len(revs[i].commands) |->
                        RetimedCommand(revs[i].commands[j], how)]]]

\* C21: the content at every cursor does not depend on any timestamp field:
\* an engine over the same list with other timestamps (out of list order,
\* or all equal) reconstructs, at every cursor, the replay in list order of
\* the original list, and at the current cursor the content the engine holds.
C21_TimestampsIgnored ==
  \A how \in Retimings :
    LET other == [This EXCEPT !.revisions = Retimed(revisions, how)]
    IN /\ reconstructCurrentContent(other).currentContent = currentContent
       /\ \A k \in Cursors :
            reconstructCurrentContent(
              [other EXCEPT !.currentRevisionIndex = k]).currentContent
              = ReplayThrough(revisions, k)

\* A list of two revisions whose order matters has been replayed to its
\* end, and its reverse-stamped copy has its timestamps out of list order.
C21_Witness ==
  /\ N = 2
  /\ op = "jumpToRevision"
  /\ currentRevisionIndex = 1
  /\ Retimed(revisions, "reverse")[1].timestamp
       > Retimed(revisions, "reverse")[2].timestamp
  /\ ReplayThrough(<<revisions[2], revisions[1]>>, 1) # currentContent

\* ---------------------------------------------------------------------
\* doc[0:i] followed by text followed by doc[j:], for 0 <= i <= j <= len.
Splice(doc, i, j, text) ==
  SubSeq(doc, 1, i) \o text \o SubSeq(doc, j + 1, Len(doc))

AppliedOne(ty) == Len(applied) = 1 /\ applied[1].ty = ty

\* C22: an insert at an index between 0 and the buffer's length returns
\* the buffer's first index characters, then the text, then the rest.
C22_InsertSplices ==
  (AppliedOne(INSERT) /\ applied[1].ibi <= Len(bufferBefore))
    => buffer = Splice(bufferBefore, applied[1].ibi, applied[1].ibi, applied[1].s)

\* Two characters were inserted in the middle of a two-character buffer.
C22_Witness ==
  /\ bufferBefore = <<"a", "b">>
  /\ applied = <<Ins(1, <<"x", "x">>, 1)>>
  /\ buffer = <<"a", "x", "x", "b">>

\* C23: a delete with 0 <= si <= ei <= length returns the buffer without
\* the characters si..ei-1, and the buffer itself when si = ei.
C23_DeleteCuts ==
  (AppliedOne(DELETE) /\ applied[1].si <= applied[1].ei
     /\ applied[1].ei <= Len(bufferBefore))
    => /\ buffer = Splice(bufferBefore, applied[1].si, applied[1].ei, <<>>)
       /\ applied[1].si = applied[1].ei => buffer = bufferBefore

\* The middle character of three was deleted.
C23_Witness ==
  /\ bufferBefore = <<"a", "b", "a">>
  /\ applied = <<Del(1, 2, 2)>>
  /\ buffer = <<"a", "a">>

\* An empty range inside the buffer was deleted.
C23_WitnessEmptyRange ==
  /\ bufferBefore = <<"a", "b">>
  /\ applied = <<Del(1, 1, 2)>>
  /\ buffer = bufferBefore

\* C24: applying the one-command list [Multi(cs)] gives the same buffer as
\* applying the list cs.
C24_MultiIsItsBody ==
  AppliedOne(MULTI)
    => buffer = applyCommandsToDocument(bufferBefore, applied[1].cmds)

\* A multi command whose two subcommands do not commute was applied.
C24_Witness ==
  /\ bufferBefore = <<"a", "b">>
  /\ applied = <<Mul(<<Ins(0, <<"x">>, 5), Del(1, 3, 5)>>, 5)>>
  /\ buffer = <<"x">>
  /\ applyCommandsToDocument(bufferBefore,
        <<Del(1, 3, 5), Ins(0, <<"x">>, 5)>>) # buffer

\* C25: an insert at an index between 0 and the buffer's length followed by
\* the delete of [index, index + length of the text) returns the buffer.
C25_InsertDeleteRoundTrip ==
  (applied \in RoundTrips /\ applied[1].ibi <= Len(bufferBefore))
    => buffer = bufferBefore

\* Text was inserted before the last character and deleted again.
C25_Witness ==
  /\ bufferBefore = <<"a", "b">>
  /\ applied = <<Ins(1, <<"x", "x">>, 1), Del(1, 3, 2)>>
  /\ buffer = <<"a", "b">>

RECURSIVE WithoutStyles(_)
WithoutStyles(cs) ==
  IF cs = <<>> THEN <<>>
  ELSE IF Head(cs).ty = STYLE THEN WithoutStyles(Tail(cs))
       ELSE <<Head(cs)>> \o WithoutStyles(Tail(cs))

\* An engine over a revision that inserts the text and a revision that
\* only styles it, stepped forward `steps` times.
RECURSIVE SteppedForward(_, _)
SteppedForward(this, steps) ==
  IF steps = 0 THEN this
  ELSE stepForward(SteppedForward(this, steps - 1)).this

StyledText(text) ==
  constructor(<<Rev("text", <<Ins(0, text, 1)>>),
                Rev("style", <<Sty(0, Len(text), 2)>>)>>, <<>>)

\* C26: a style command never changes the buffer: applied alone, inside a
\* list or a multi command (the result is that of the list without its
\* style commands), and as a whole revision, where stepping over it moves
\* the cursor and keeps the content.
C26_StyleKeepsBuffer ==
  /\ AppliedOne(STYLE) => buffer = bufferBefore
  /\ AppliedOne(MULTI) =>
       buffer = applyCommandsToDocument(bufferBefore,
                  WithoutStyles(applied[1].cmds))
  /\ buffer = applyCommandsToDocument(bufferBefore, WithoutStyles(applied))
  /\ LET atText == SteppedForward(StyledText(buffer), 1)
         atStyle == SteppedForward(StyledText(buffer), 2)
     IN /\ atText.currentRevisionIndex = 0
        /\ atStyle.currentRevisionIndex = 1
        /\ atText.currentContent = buffer
        /\ atStyle.currentContent = buffer
        /\ stepBackward(atStyle).this.currentRevisionIndex = 0
        /\ stepBackward(atStyle).this.currentContent = buffer

\* A style command over the whole of a non-empty buffer was applied.
C26_Witness ==
  /\ bufferBefore = <<"a", "b", "a">>
  /\ applied = <<Sty(0, MaxIndex, 3)>>
  /\ buffer = bufferBefore

\* A multi command with a style command between two edits was applied.
C26_WitnessInsideMulti ==
  /\ AppliedOne(MULTI)
  /\ Len(applied[1].cmds) = 2
  /\ applied[1].cmds[1].ty = STYLE
  /\ applied[1].cmds[2].ty = DELETE
  /\ buffer # bufferBefore

\* ---------------------------------------------------------------------
\* The change list of a payload that has one, and the typed command of a
\* known-type change, built with the constructors the interpreter's inputs
\* are built with.
HasChangeList(raw) ==
  /\ ~Nullish(raw)
  /\ Has(raw, "changelog")
  /\ ~Nullish(raw.changelog)
  /\ Has(raw.changelog, "changes")

IsKnown(change) ==
  change.jstype = "object" /\ Has(change, "ty") /\ change.ty \in KnownTypes

IsUnknownCode(change) ==
  change.jstype = "object" /\ Has(change, "ty") /\ change.ty \notin KnownTypes

RECURSIVE Translate(_)
RECURSIVE TranslateKnown(_)
Translate(change) ==
  CASE change.ty = "is" -> Ins(change.ibi, change.s, change.ts)
    [] change.ty = "ds" -> Del(change.si, change.ei, change.ts)
    [] change.ty = "st" -> [Sty(change.si, change.ei, change.ts) EXCEPT !.s = change.s]
    [] change.ty = "mlti" -> Mul(TranslateKnown(change.cmds), change.ts)

TranslateKnown(changes) ==
  IF changes = <<>> THEN <<>>
  ELSE (IF IsKnown(Head(changes)) THEN <<Translate(Head(changes))>> ELSE <<>>)
         \o TranslateKnown(Tail(changes))

\* Every entry is a well-formed change of a known type or has an unknown
\* type code (at top level or inside an 'mlti').
NothingBroken(changes) ==
  \A i \in 1..Len(changes) : changes[i] \in WellFormedChanges \cup UnknownChanges

\* C28: for a payload parseRevisionData returns a revision for, the
\* revision's id and timestamp are the payload's and its commands are the
\* typed commands of the known-type changes, in input order, with ts as
\* timestamp and an 'mlti' change's cmds mapped in order; and it returns a
\* revision for every payload whose changes are all well formed.
C28_ParsedRevision ==
  /\ parsed.tag = "revision" =>
       /\ Has(payload, "revisionId") =>
            parsed.revision.revisionId = payload.revisionId
       /\ Has(payload, "timestamp") =>
            parsed.revision.timestamp = payload.timestamp
       /\ parsed.revision.commands =
            IF HasChangeList(payload)
            THEN TranslateKnown(payload.changelog.changes) ELSE <<>>
  /\ (parsed.tag # "none" /\ HasChangeList(payload)
        /\ NothingBroken(payload.changelog.changes))
       => parsed.tag = "revision"

\* An insert and an 'mlti' of an insert and a style were parsed.
C28_Witness ==
  /\ payload = RawPayload(<<RawIns(1, <<"b">>, 2),
                            RawMul(<<RawIns(0, <<"c">>, 5), RawSty(0, 1, 5)>>, 5)>>)
  /\ parsed = Revision([revisionId |-> "rev-1", timestamp |-> 100,
                         commands |-> <<Ins(1, <<"b">>, 2),
                                        Mul(<<Ins(0, <<"c">>, 5), Sty(0, 1, 5)>>, 5)>>])

RECURSIVE WithoutUnknown(_)
WithoutUnknown(changes) ==
  IF changes = <<>> THEN <<>>
  ELSE LET c == Head(changes)
       IN (IF IsUnknownCode(c) THEN <<>>
           ELSE IF IsKnown(c) /\ c.ty = "mlti" /\ Has(c, "cmds")
                THEN <<[c EXCEPT !.cmds = WithoutUnknown(@)]>>
                ELSE <<c>>)
          \o WithoutUnknown(Tail(changes))

\* C29: when a change list holds changes with an unknown type code, at top
\* level or inside an 'mlti', and is otherwise well formed, the parse
\* returns a revision whose commands are those parsed from the list with
\* these changes removed: one per remaining change, in the same order.
C29_UnknownDropped ==
  (parsed.tag # "none" /\ HasChangeList(payload)
     /\ NothingBroken(payload.changelog.changes)
     /\ WithoutUnknown(payload.changelog.changes) # payload.changelog.changes)
    => LET remaining == WithoutUnknown(payload.changelog.changes)
       IN /\ parsed.tag = "revision"
          /\ parsed.revision.commands =
               parseRevisionData(RawPayload(remaining)).revision.commands
          /\ Len(parsed.revision.commands) = Len(remaining)

\* Unknown codes at top level, between two changes, and inside an 'mlti'
\* were parsed.
C29_Witness ==
  /\ payload = RawPayload(<<RawIns(0, <<"a">>, 1), RawUnknown,
                            RawMul(<<RawIns(0, <<"c">>, 7), RawUnknown,
                                     RawDel(0, 1, 7)>>, 7)>>)
  /\ parsed.tag = "revision"
  /\ parsed.revision.commands =
       <<Ins(0, <<"a">>, 1), Mul(<<Ins(0, <<"c">>, 7), Del(0, 1, 7)>>, 7)>>

\* A malformed entry: an unknown type code, a null or non-object entry, or
\* an 'mlti' entry without a cmds list.
Malformed(change) == change \in {RawUnknown, JsNull, JsNumber, RawMulNoCmds}

RECURSIVE Others(_)
Others(changes) ==
  IF changes = <<>> THEN <<>>
  ELSE (IF Malformed(Head(changes)) THEN <<>> ELSE <<Head(changes)>>)
         \o Others(Tail(changes))

OneMalformed(changes) ==
  /\ Len(Others(changes)) = Len(changes) - 1
  /\ \A i \in 1..Len(changes) :
       Malformed(changes[i]) \/ changes[i] \in WellFormedChanges

\* C30: for a change list in which one entry is malformed and the others
\* are well formed, parseRevisionData returns a revision with the commands
\* of all other entries.
C30_AsStated ==
  (parsed.tag # "none" /\ HasChangeList(payload)
     /\ OneMalformed(payload.changelog.changes))
    => /\ parsed.tag = "revision"
       /\ parsed.revision.commands =
            TranslateKnown(Others(payload.changelog.changes))

\* ---------------------------------------------------------------------
\* Some multi command of the list, at any depth, has a multi command among
\* its subcommands.
RECURSIVE NestsMulti(_)
NestsMulti(cmds) ==
  \E i \in 1..Len(cmds) :
    /\ cmds[i].ty = MULTI
    /\ \/ \E j \in 1..Len(cmds[i].cmds) : cmds[i].cmds[j].ty = MULTI
       \/ NestsMulti(cmds[i].cmds)

\* C31: in every revision parseRevisionData produces, no multi command has
\* a multi command among its subcommands.
C31_AsStated ==
  parsed.tag = "revision" => ~NestsMulti(parsed.revision.commands)

\* A payload no identifier, no timestamp or no change list can be read from.
Unusable(raw) ==
  \/ raw.jstype # "object"
  \/ ~Has(raw, "revisionId")
  \/ ~Has(raw, "timestamp")
  \/ ~HasChangeList(raw)

\* C32: for a structurally unusable payload parseRevisionData fails with
\* its error, and returns no revision.
C32_AsStated ==
  (parsed.tag # "none" /\ Unusable(payload)) => parsed = ParseError

\* C33: the options getOptions() returns contain exactly the keys speed
\* and autoPlay, whatever keys were passed at construction or to
\* setOptions.
C33_AsStated ==
  DOMAIN getOptions(This) = {"speed", "autoPlay"}

\* The content reconstructCurrentContent gives an engine at cursor k.
ContentAt(k) ==
  reconstructCurrentContent([This EXCEPT !.currentRevisionIndex = k]).currentContent

\* C34: incremental replay refines full replay: whenever stepForward() (or
\* the tick that calls it) advances the cursor, the new content is the old
\* content with the commands of the revision stepped onto applied, and for
\* every cursor i < N-1 the full replay at i+1 is the full replay at i with
\* the commands of revision i+1 applied.
C34_IncrementalRefinesReplay ==
  [][ /\ ((op' = "stepForward" /\ ret' = <<TRUE>>)
            \/ (op' = "tick" /\ currentRevisionIndex' # currentRevisionIndex))
         => /\ currentRevisionIndex' = currentRevisionIndex + 1
            /\ currentContent' =
                 applyCommandsToDocument(currentContent,
                   revisions[currentRevisionIndex' + 1].commands)
      /\ \A i \in (0 - 1) .. (N - 2) :
           ContentAt(i + 1) =
             applyCommandsToDocument(ContentAt(i), revisions[i + 2].commands)
    ]_vars

\* A forward step onto the second of two revisions changed the content.
C34_Witness ==
  /\ op = "stepForward"
  /\ ret = <<TRUE>>
  /\ currentRevisionIndex = 1
  /\ currentContent # ContentAt(0)

\* C35: a timer is active exactly when the state is PLAYING.
C35_TimerIffPlaying ==
  /\ timers # {} <=> state = PLAYING
  /\ playbackInterval # null <=> state = PLAYING

\* Playback was paused: the timer play() had started is gone.
C35_Witness ==
  /\ op = "pause"
  /\ ret = <<TRUE>>
  /\ state = PAUSED
  /\ timers = {}
  /\ nextTimerId > 1

\* Playback is under way at a speed other than the default.
C35_WitnessPlaying ==
  /\ state = PLAYING
  /\ op = "setOptions"
  /\ Cardinality(timers) = 1

\* Playback has run to its end: IDLE at the last revision with the replay
\* of the whole list, and no timer left to fire.
Completed ==
  /\ state = IDLE
  /\ timers = {}
  /\ playbackInterval = null
  /\ currentRevisionIndex = N - 1
  /\ currentContent = ReplayThrough(revisions, N - 1)

\* C36: when play() has been called and no consumer operation follows,
\* ticks firing fairly lead to state IDLE at cursor N-1 with the content of
\* the full replay and no timer, and the engine stays there.
C36_AutoplayCompletes ==
  (state = PLAYING) ~> [](Completed)

\* An uninterrupted playback of the three-revision set has completed.
C36_Witness ==
  /\ run # NoRun
  /\ run.ticks > 0
  /\ revisions = mockRevisions
  /\ Completed

\* C37: uninterrupted playback started at cursor c takes N-1-c advancing
\* ticks and one completing tick: after k <= N-1-c ticks the cursor is c+k
\* and the state is PLAYING with the timer active, also when c+k is the last
\* revision; the tick after that leaves IDLE, cursor N-1 and no timer, and
\* no further tick fires.
C37_CompletingTickIsExtra ==
  run # NoRun =>
    LET advancing == N - 1 - run.from
    IN /\ run.ticks <= advancing =>
            /\ state = PLAYING
            /\ timers # {}
            /\ currentRevisionIndex = run.from + run.ticks
       /\ run.ticks = advancing + 1 =>
            /\ state = IDLE
            /\ timers = {}
            /\ currentRevisionIndex = N - 1
       /\ run.ticks <= advancing + 1

\* A tick has moved the cursor from the first onto the last of two
\* revisions, and the engine is still playing.
C37_Witness ==
  /\ N = 2
  /\ run # NoRun
  /\ run.from = 0
  /\ run.ticks = 1
  /\ op = "tick"
  /\ currentRevisionIndex = N - 1
  /\ state = PLAYING
  /\ Cardinality(timers) = 1

\* C38: the result of a delete with non-negative indices, in any order and
\* in or out of range, is never longer than the buffer it was applied to.
C38_AsStated ==
  AppliedOne(DELETE) => Len(buffer) <= Len(bufferBefore)

\* C39: an insert at any non-negative index returns a buffer of the length
\* of the buffer plus that of the text, of which the buffer's characters in
\* their order are what is left when the text is taken out again; an index
\* beyond the end of the buffer appends the text.
C39_InsertBeyondEndAppends ==
  AppliedOne(INSERT) =>
    LET at == Min(applied[1].ibi, Len(bufferBefore))
        text == applied[1].s
    IN /\ Len(buffer) = Len(bufferBefore) + Len(text)
       /\ SubSeq(buffer, at + 1, at + Len(text)) = text
       /\ Splice(buffer, at, at + Len(text), <<>>) = bufferBefore
       /\ applied[1].ibi > Len(bufferBefore) => buffer = bufferBefore \o text

\* Text was inserted at an index two beyond the end of the buffer.
C39_Witness ==
  /\ bufferBefore = <<"a", "b">>
  /\ applied = <<Ins(4, <<"x", "x">>, 1)>>
  /\ buffer = <<"a", "b", "x", "x">>

\* C40: over an empty revision list the cursor is -1 and the content empty
\* in every reachable state; stepForward and stepBackward return false;
\* jumpToRevision returns true for every index and leaves the cursor at -1;
\* and play() followed by one tick ends in state IDLE with no timer.
C40_EmptyList ==
  N = 0 =>
    /\ currentRevisionIndex = 0 - 1
    /\ currentContent = <<>>
    /\ op \in {"stepForward", "stepBackward"} => ret = <<FALSE>>
    /\ ~stepForward(This).ret
    /\ ~stepBackward(This).ret
    /\ op = "jumpToRevision" => ret = <<TRUE>>
    /\ \A x \in JumpArgs :
         /\ jumpToRevision(This, x).ret
         /\ jumpToRevision(This, x).this.currentRevisionIndex = 0 - 1
         /\ jumpToRevision(This, x).this.currentContent = <<>>
    /\ (run # NoRun /\ run.ticks = 1) =>
         /\ state = IDLE
         /\ timers = {}
         /\ playbackInterval = null
    /\ run # NoRun => run.ticks <= 1

\* Over the empty list, play() and one tick have ended the playback.
C40_Witness ==
  /\ N = 0
  /\ op = "tick"
  /\ run # NoRun
  /\ run.ticks = 1
  /\ state = IDLE

\* Over the empty list, a jump beyond the end has returned true.
C40_WitnessJump ==
  /\ N = 0
  /\ op = "jumpToRevision"
  /\ arg = <<MaxJump>>
  /\ ret = <<TRUE>>

====
